---- MODULE Spec2Model ----
(***************************************************************************)
(* System-V style IPC of rCore: the per-process semaphore table (SemProc), *)
(* the per-process shared-memory table (ShmProc) of kernel/src/ipc/mod.rs  *)
(* and the semaphore syscalls of kernel/src/syscall/ipc.rs.                *)
(***************************************************************************)
EXTENDS Integers, Sequences, FiniteSets, TLC

(***************************************************************************)
(* Bounds of the model.                                                    *)
(***************************************************************************)
\* calls (semget, semop, semctl, fork) issued in one behaviour of Spec
MaxCalls == 3
\* calls issued in one behaviour of SpecLive
MaxLiveCalls == 4
\* table operations in one behaviour of SpecTable
MaxTableOps == 4
\* calls (shmget, shmat, shmdt, fork) issued in one behaviour of SpecShm
MaxShmCalls == 4
\* calls issued in one behaviour of SpecErr
MaxErrCalls == 5

(***************************************************************************)
(* Program constants.                                                      *)
(***************************************************************************)
SEMMSL == 256
IPC_NOWAIT == 2048
SEM_UNDO == 4096
SETVAL == 16
GETVAL == 12
PAGE_SIZE == 4096
I16_MIN == -32768
I16_MAX == 32767

(***************************************************************************)
(* Processes, threads and the inputs the syscalls are called with.         *)
(***************************************************************************)
Procs == {1, 2}
Threads == {1, 2, 3}
\* threads 1 and 2 are sibling threads of process 1, thread 3 runs in process 2
ProcOf(t) == IF t = 3 THEN 2 ELSE 1
ThreadsOf(p) == {t \in Threads : ProcOf(t) = p}
NoThread == 0

Keys == {1, 2}
NsemsChoices == {0 - 1, 0, SEMMSL, SEMMSL + 1}
IdChoices == {0, 1}
NumChoices == {0, 1}
ArgChoices == {1}
CmdChoices == {SETVAL, GETVAL}

SemBuf(n, o, f) == [num |-> n, op |-> o, flags |-> f]
\* supported elements: +1 / -1, with and without SEM_UNDO
GoodElems == {SemBuf(0, 1, 0), SemBuf(0, 1, SEM_UNDO), SemBuf(0, 0 - 1, SEM_UNDO)}
\* unsupported elements: IPC_NOWAIT, a magnitude other than 1, an index out of the array
BadElems == {SemBuf(0, 1, IPC_NOWAIT), SemBuf(0, 2, SEM_UNDO), SemBuf(SEMMSL, 1, SEM_UNDO)}
OpsChoices ==
    {<<>>} \cup {<<e>> : e \in GoodElems \cup BadElems}
           \cup {<<SemBuf(0, 1, SEM_UNDO), SemBuf(1, 0 - 1, SEM_UNDO)>>,
                 <<SemBuf(0, 0 - 1, SEM_UNDO), SemBuf(0, 1, 0)>>,
                 <<SemBuf(0, 1, SEM_UNDO), SemBuf(0, 2, SEM_UNDO)>>,
                 <<SemBuf(0, 1, SEM_UNDO), SemBuf(0, 1, IPC_NOWAIT)>>,
                 <<SemBuf(0, 1, SEM_UNDO), SemBuf(1, 1, 0), SemBuf(1, 0 - 1, SEM_UNDO)>>}
\* the scenario of SpecLive: thread 1 acquires with SEM_UNDO, the others release
AcquireUndo == {<<SemBuf(n, 0 - 1, SEM_UNDO)>> : n \in NumChoices}
ReleasePlain == {<<SemBuf(n, 1, 0)>> : n \in NumChoices}

(***************************************************************************)
(* Finite maps (BTreeMap) as functions.                                    *)
(***************************************************************************)
EmptyMap == <<>>
Insert(m, k, v) == [x \in (DOMAIN m) \cup {k} |-> IF x = k THEN v ELSE m[x]]
Remove(m, k) == [x \in (DOMAIN m) \ {k} |-> m[x]]
Lookup(m, k, dflt) == IF k \in DOMAIN m THEN m[k] ELSE dflt
\* a map that leaves out the entries of value 0
Put(m, k, v) == IF v = 0 THEN Remove(m, k) ELSE Insert(m, k, v)

\* SysResult: Ok(val) or an error
Ok(v) == [tag |-> "Ok", val |-> v]
EINVAL == [tag |-> "EINVAL", val |-> 0]
EFAULT == [tag |-> "EFAULT", val |-> 0]
NoRet == [tag |-> "none", val |-> 0]

\* SemFlags::contains after from_bits_truncate
Contains(flags, bit) == (flags \div bit) % 2 = 1

\* i16 arithmetic of SemOp (two's complement wrap-around)
WrapI16(x) == ((x - I16_MIN) % (I16_MAX - I16_MIN + 1)) + I16_MIN

(***************************************************************************)
(* SemProc (ipc/mod.rs)                                                    *)
(***************************************************************************)
RECURSIVE SemScanFree(_, _)
SemScanFree(arrs, i) == IF i \notin DOMAIN arrs THEN i ELSE SemScanFree(arrs, i + 1)

SemProc_get_free_id_from1(arrs) == SemScanFree(arrs, 1)
SemProc_get_free_id(arrs) == SemScanFree(arrs, 0)

SemProc_add_rebind(arrs, array) == [id |-> 0, arrays |-> Insert(arrs, 0, array)]
SemProc_add(arrs, array) ==
    LET id == SemProc_get_free_id(arrs)
    IN  [id |-> id, arrays |-> Insert(arrs, id, array)]

\* Option<Arc<SemArray>>
SemProc_get(arrs, id) ==
    IF id \in DOMAIN arrs THEN [some |-> TRUE, v |-> arrs[id]]
                          ELSE [some |-> FALSE, v |-> 0]

add_undo_overwrite(und, id, num, op) ==
    Insert(und, <<id, num>>, WrapI16(0 - op))
add_undo_plus(und, id, num, op) ==
    Insert(und, <<id, num>>, WrapI16(Lookup(und, <<id, num>>, 0) + op))
add_undo(und, id, num, op) ==
    LET old_val == Lookup(und, <<id, num>>, 0)
        new_val == WrapI16(old_val - op)
    IN  Insert(und, <<id, num>>, new_val)

\* impl Clone for SemProc
SemProc_clone_keep_undos(arrs, und) == [arrays |-> arrs, undos |-> und]
SemProc_clone(arrs, und) == [arrays |-> arrs, undos |-> EmptyMap]

\* BTreeMap iteration order of the undo keys (id, num)
KeyLess(a, b) == a[1] < b[1] \/ (a[1] = b[1] /\ a[2] < b[2])
MinKey(S) == CHOOSE k \in S : \A j \in S : j = k \/ KeyLess(k, j)

(***************************************************************************)
(* The semaphore object (crate::sync::Semaphore, SemArray).  An array is   *)
(* named by its key; sv[a] maps the index of a semaphore to its value and  *)
(* leaves out the semaphores of value 0.                                   *)
(***************************************************************************)
SemValue(sv, a, num) == Lookup(sv[a], num, 0)
SemSet(sv, a, num, v) == [sv EXCEPT ![a] = Put(@, num, v)]
\* release(): increment (and wake a waiter)
SemRelease(sv, a, num) == SemSet(sv, a, num, SemValue(sv, a, num) + 1)
\* acquire() blocks until the value can be decremented
CanAcquire(sv, a, num) == SemValue(sv, a, num) > 0
SemAcquireNow(sv, a, num) == SemSet(sv, a, num, SemValue(sv, a, num) - 1)
\* indexing sem_array[num as usize]
InBounds(size, a, num) == num < size[a]

\* impl Drop for SemProc: the loop over self.undos, from the entries `todo`
\* still to visit. The result is the semaphore values, the keys released and
\* whether the loop ran to its end (FALSE: it hit unimplemented!()).
RECURSIVE SemProc_drop(_, _, _, _, _, _)
SemProc_drop(arrs, und, todo, size, sv, rel) ==
    IF todo = {} THEN [semval |-> sv, released |-> rel, completed |-> TRUE]
    ELSE LET k == MinKey(todo)
             op == und[k]
         IN  IF k[1] \notin DOMAIN arrs \/ ~InBounds(size, arrs[k[1]], k[2])
             THEN [semval |-> sv, released |-> rel, completed |-> FALSE]
             ELSE IF op = 1
             THEN SemProc_drop(arrs, und, todo \ {k}, size,
                               SemRelease(sv, arrs[k[1]], k[2]), rel \cup {k})
             ELSE IF op = 0
             THEN SemProc_drop(arrs, und, todo \ {k}, size, sv, rel)
             ELSE [semval |-> sv, released |-> rel, completed |-> FALSE]

(***************************************************************************)
(* ShmProc (ipc/mod.rs)                                                    *)
(***************************************************************************)
Guards == {1, 2}
AddrChoices == {0, PAGE_SIZE, 2 * PAGE_SIZE}
ShmIdentifier(a, g) == [addr |-> a, sharedGuard |-> g]

RECURSIVE ShmScanFree(_, _)
ShmScanFree(ids, i) == IF i \notin DOMAIN ids THEN i ELSE ShmScanFree(ids, i + 1)

ShmProc_get_free_id_len(ids) == Cardinality(DOMAIN ids)
ShmProc_get_free_id(ids) == ShmScanFree(ids, 0)

ShmProc_add(ids, sharedGuard) ==
    LET id == ShmProc_get_free_id(ids)
    IN  [id |-> id, shmIdentifiers |-> Insert(ids, id, ShmIdentifier(0, sharedGuard))]

\* Option<ShmIdentifier>
ShmProc_get_or_default(ids, id) ==
    IF id \in DOMAIN ids THEN [some |-> TRUE, v |-> ids[id]]
                         ELSE [some |-> TRUE, v |-> ShmIdentifier(0, <<1, 0>>)]
ShmProc_get(ids, id) ==
    IF id \in DOMAIN ids THEN [some |-> TRUE, v |-> ids[id]]
                         ELSE [some |-> FALSE, v |-> ShmIdentifier(0, 0)]

ShmProc_set_addr_lost(ids, id, shmId) == Insert(ids, id, ShmIdentifier(0, shmId.sharedGuard))
ShmProc_set(ids, id, shmId) == Insert(ids, id, shmId)

ShmProc_pop(ids, id) == Remove(ids, id)

\* getId: the first id, in the order of the ids, whose recorded address is addr
ShmProc_getId(ids, addr) ==
    LET hits == {i \in DOMAIN ids : ids[i].addr = addr}
    IN  IF hits = {} THEN [some |-> FALSE, v |-> 0]
        ELSE [some |-> TRUE, v |-> CHOOSE i \in hits : \A j \in hits : i <= j]

\* impl Clone for ShmProc
ShmProc_clone_empty(ids) == EmptyMap
ShmProc_clone(ids) == ids

(***************************************************************************)
(* The shared segment guard (ShmIdentifier::new_sharedGuard) and the       *)
(* address space (self.vm()).  A guard is named by its key and by the      *)
(* generation of the key it was created in; gen[key], size[key] and        *)
(* refs[key] describe the live guard of the key (refs: its holders).  An   *)
(* address space is a set of regions [start, end, guard].                  *)
(***************************************************************************)
Guard(key, g) == <<key, g>>
GuardKey(guard) == guard[1]
Region(s, e, guard) == [start |-> s, end |-> e, guard |-> guard]

\* new_sharedGuard(key, size): the live guard of key, or a new one of that size
new_sharedGuard(gen, size, refs, key, sz) ==
    IF refs[key] > 0
    THEN [guard |-> Guard(key, gen[key]), gen |-> gen, size |-> size]
    ELSE [guard |-> Guard(key, gen[key] + 1),
          gen |-> [gen EXCEPT ![key] = @ + 1],
          size |-> [size EXCEPT ![key] = sz]]

\* holders of the live guards gained (n > 0) or dropped (n < 0)
AddRefs(refs, key, n) == [refs EXCEPT ![key] = @ + n]

\* test_free_area: [s, e) meets no region
IsFree(regs, s, e) == \A r \in regs : e <= r.start \/ r.end <= s

\* find_free_area(addr, size): the first page from addr on at which size bytes are free
RECURSIVE ScanFreeArea(_, _, _)
ScanFreeArea(regs, page, sz) ==
    IF IsFree(regs, page * PAGE_SIZE, page * PAGE_SIZE + sz) THEN page * PAGE_SIZE
    ELSE ScanFreeArea(regs, page + 1, sz)

find_free_area(regs, addr, sz) == ScanFreeArea(regs, addr \div PAGE_SIZE, sz)

\* push(start, end, attr, handler, name)
vm_push(regs, s, e, guard) == regs \cup {Region(s, e, guard)}

\* the region that starts at addr, if one is mapped
MappedAt(regs, addr) == \E r \in regs : r.start = addr

(***************************************************************************)
(* State                                                                   *)
(***************************************************************************)
VARIABLES
    alive,      \* alive[p]: process p exists
    arrays,     \* arrays[p]: SemProc.arrays, SemId -> array (named by its key)
    undos,      \* undos[p]: SemProc.undos, (SemId, SemNum) -> SemOp
    shm,        \* shm[p]: ShmProc.shmIdentifiers, ShmId -> ShmIdentifier
    lock,       \* lock[p]: the thread holding the guard returned by self.process()
    semsize,    \* semsize[key]: number of semaphores of the array of key, -1: no array
    semval,     \* semval[key]: the values of the array's semaphores
    pc,         \* pc[t]: where thread t is in its syscall
    call,       \* call[t]: id, ops, loop position and array handle of t's semop
    ret,        \* ret[t]: result of the last syscall thread t returned from
    panicked,   \* the kernel hit unimplemented!() or an index out of bounds
    budget,     \* calls the behaviour may still issue
    undoSum,    \* history: undoSum[p][(id,num)], sum of the SEM_UNDO ops applied
    applied,    \* history: applied[t], elements of the current call already applied
    recorded,   \* history: recorded[t], elements of the current call with undo recorded
    waited,     \* history: waited[t], the current/last semop was suspended in acquire
    dropped,    \* history: dropped[p], what the last termination of p did
    tlog,       \* history: tlog[p], the table operations applied in SpecTable
    vm,         \* vm[p]: the regions mapped in the address space of p
    shmcall,    \* shmcall[t]: id, addr and looked-up entry of t's shmat
    shmgen,     \* shmgen[key]: generation of the guard of key
    shmsize,    \* shmsize[key]: size of the live guard of key
    shmrefs     \* shmrefs[key]: holders of the live guard of key (0: no guard)

vars == <<alive, arrays, undos, shm, lock, semsize, semval, pc, call, ret, panicked,
          budget, undoSum, applied, recorded, waited, dropped, tlog,
          vm, shmcall, shmgen, shmsize, shmrefs>>

shmVars == <<vm, shmcall, shmgen, shmsize, shmrefs>>
NoShmCall == [id |-> 0, addr |-> 0, ident |-> ShmIdentifier(0, Guard(0, 0))]

NoCall == [id |-> 0, ops |-> <<>>, i |-> 0, arr |-> 0]
NoDrop == [happened |-> FALSE, completed |-> FALSE, undos |-> EmptyMap,
           arrays |-> EmptyMap, sum |-> EmptyMap, before |-> <<>>, after |-> <<>>,
           released |-> {}]

InitWith(n) ==
    /\ alive = [p \in Procs |-> p = 1]
    /\ arrays = [p \in Procs |-> EmptyMap]
    /\ undos = [p \in Procs |-> EmptyMap]
    /\ shm = [p \in Procs |-> EmptyMap]
    /\ lock = [p \in Procs |-> NoThread]
    /\ semsize = [k \in Keys |-> 0 - 1]
    /\ semval = [k \in Keys |-> EmptyMap]
    /\ pc = [t \in Threads |-> "idle"]
    /\ call = [t \in Threads |-> NoCall]
    /\ ret = [t \in Threads |-> NoRet]
    /\ panicked = FALSE
    /\ budget = n
    /\ undoSum = [p \in Procs |-> EmptyMap]
    /\ applied = [t \in Threads |-> <<>>]
    /\ recorded = [t \in Threads |-> <<>>]
    /\ waited = [t \in Threads |-> FALSE]
    /\ dropped = [p \in Procs |-> NoDrop]
    /\ tlog = [p \in Procs |-> [sem |-> <<>>, shm |-> <<>>, pure |-> TRUE,
                                  last |-> [kind |-> "none", id |-> 0],
                                  prev |-> [kind |-> "none", id |-> 0]]]
    /\ vm = [p \in Procs |-> {}]
    /\ shmcall = [t \in Threads |-> NoShmCall]
    /\ shmgen = [k \in Keys |-> 0]
    /\ shmsize = [k \in Keys |-> 0]
    /\ shmrefs = [k \in Keys |-> 0]

Init == InitWith(MaxCalls)

\* a thread may enter a syscall
CanCall(t) ==
    /\ ~panicked
    /\ alive[ProcOf(t)]
    /\ pc[t] = "idle"
    /\ budget > 0

histVars == <<undoSum, applied, recorded, waited, dropped, tlog>>

(***************************************************************************)
(* sys_semget                                                              *)
(***************************************************************************)
NsemsValid_exclusive(nsems) == ~(nsems < 0 \/ nsems >= SEMMSL)
NsemsValid(nsems) == ~(nsems < 0 \/ nsems > SEMMSL)

\* SemArray::get_or_create: the array registered for key, created with nsems
\* semaphores of value 0 when the key has none
get_or_create(size, key, nsems) ==
    IF size[key] >= 0 THEN size ELSE [size EXCEPT ![key] = nsems]

sys_semget(t, key, nsems) ==
    /\ CanCall(t)
    /\ lock[ProcOf(t)] = NoThread
    /\ budget' = budget - 1
    /\ IF ~NsemsValid(nsems)
       THEN /\ ret' = [ret EXCEPT ![t] = EINVAL]
            /\ UNCHANGED <<arrays, semsize>>
       ELSE LET r == SemProc_add(arrays[ProcOf(t)], key)
            IN  /\ semsize' = get_or_create(semsize, key, nsems)
                /\ arrays' = [arrays EXCEPT ![ProcOf(t)] = r.arrays]
                /\ ret' = [ret EXCEPT ![t] = Ok(r.id)]
    /\ UNCHANGED <<alive, undos, shm, lock, semval, pc, call, panicked>>
    /\ UNCHANGED histVars
    /\ UNCHANGED shmVars

(***************************************************************************)
(* sys_semop                                                               *)
(***************************************************************************)
\* the guard returned by self.process() is a temporary of the statement that
\* uses it: it is dropped at the end of that statement
DropGuard_kept(t) == t
DropGuard(t) == NoThread

\* the element the loop is at
CurrentOp_reversed(c) == c.ops[Len(c.ops) + 1 - c.i]
CurrentOp(c) == c.ops[c.i]

\* return from sys_semop with result r
SemopReturn(t, r) ==
    /\ pc' = [pc EXCEPT ![t] = "idle"]
    /\ call' = [call EXCEPT ![t] = NoCall]
    /\ ret' = [ret EXCEPT ![t] = r]
    /\ applied' = [applied EXCEPT ![t] = <<>>]
    /\ recorded' = [recorded EXCEPT ![t] = <<>>]

\* the loop goes on to its next element, or the call returns Ok(0)
SemopAdvance(t, app, rec) ==
    IF call[t].i >= Len(call[t].ops)
    THEN SemopReturn(t, Ok(0))
    ELSE /\ pc' = [pc EXCEPT ![t] = "semop_op"]
         /\ call' = [call EXCEPT ![t].i = @ + 1]
         /\ applied' = [applied EXCEPT ![t] = app]
         /\ recorded' = [recorded EXCEPT ![t] = rec]
         /\ UNCHANGED ret

\* check_read_array(ops, num_ops)?, then self.process() of the get statement
SemopCall(t, id, ops, readable) ==
    /\ CanCall(t)
    /\ budget' = budget - 1
    /\ IF ~readable
       THEN /\ ret' = [ret EXCEPT ![t] = EFAULT]
            /\ UNCHANGED <<pc, call, waited, lock>>
       ELSE /\ lock[ProcOf(t)] = NoThread
            /\ lock' = [lock EXCEPT ![ProcOf(t)] = t]
            /\ pc' = [pc EXCEPT ![t] = "semop_get"]
            /\ call' = [call EXCEPT ![t] = [id |-> id, ops |-> ops, i |-> 1, arr |-> 0]]
            /\ waited' = [waited EXCEPT ![t] = FALSE]
            /\ UNCHANGED ret
    /\ UNCHANGED <<alive, arrays, undos, shm, semsize, semval, panicked>>
    /\ UNCHANGED <<undoSum, applied, recorded, dropped, tlog>>
    /\ UNCHANGED shmVars

\* .semaphores.get(id).ok_or(SysError::EINVAL)?
SemopGet(t) ==
    /\ ~panicked
    /\ pc[t] = "semop_get"
    /\ LET g == SemProc_get(arrays[ProcOf(t)], call[t].id)
       IN  IF ~g.some
           THEN /\ lock' = [lock EXCEPT ![ProcOf(t)] = NoThread]
                /\ SemopReturn(t, EINVAL)
           ELSE /\ lock' = [lock EXCEPT ![ProcOf(t)] = DropGuard(t)]
                /\ IF call[t].ops = <<>>
                   THEN SemopReturn(t, Ok(0))
                   ELSE /\ pc' = [pc EXCEPT ![t] = "semop_op"]
                        /\ call' = [call EXCEPT ![t].arr = g.v]
                        /\ UNCHANGED <<ret, applied, recorded>>
    /\ UNCHANGED <<alive, arrays, undos, shm, semsize, semval, panicked, budget>>
    /\ UNCHANGED <<undoSum, waited, dropped, tlog>>
    /\ UNCHANGED shmVars

\* after release()/acquire() returned: the SEM_UNDO test of the element
SemopAfterOp(t, e) ==
    IF Contains(e.flags, SEM_UNDO)
    THEN /\ pc' = [pc EXCEPT ![t] = "undo_lock"]
         /\ undoSum' = [undoSum EXCEPT ![ProcOf(t)] =
                           Insert(@, <<call[t].id, e.num>>,
                                  Lookup(@, <<call[t].id, e.num>>, 0) + e.op)]
         /\ applied' = [applied EXCEPT ![t] = Append(@, e)]
         /\ UNCHANGED <<call, ret, recorded>>
    ELSE /\ SemopAdvance(t, Append(applied[t], e), recorded[t])
         /\ UNCHANGED undoSum

\* flags.contains(SemFlags::IPC_NOWAIT), tested before the semaphore is touched
NowaitSet_ignored(e) == FALSE
NowaitSet(e) == Contains(e.flags, IPC_NOWAIT)

kernelPanic ==
    /\ panicked' = TRUE
    /\ UNCHANGED <<semval, pc, call, ret, undoSum, applied, recorded, waited>>

\* one element of the loop, up to the return of release() or the entry of acquire()
SemopOp(t) ==
    /\ ~panicked
    /\ pc[t] = "semop_op"
    /\ LET e == CurrentOp(call[t])
           a == call[t].arr
       IN  IF NowaitSet(e) THEN kernelPanic
           ELSE IF ~InBounds(semsize, a, e.num) THEN kernelPanic
           ELSE IF e.op = 1
           THEN /\ semval' = SemRelease(semval, a, e.num)
                /\ SemopAfterOp(t, e)
                /\ UNCHANGED <<panicked, waited>>
           ELSE IF e.op = 0 - 1
           THEN IF CanAcquire(semval, a, e.num)
                THEN /\ semval' = SemAcquireNow(semval, a, e.num)
                     /\ SemopAfterOp(t, e)
                     /\ UNCHANGED <<panicked, waited>>
                ELSE /\ pc' = [pc EXCEPT ![t] = "semop_wait"]
                     /\ waited' = [waited EXCEPT ![t] = TRUE]
                     /\ UNCHANGED <<semval, call, ret, panicked, undoSum, applied, recorded>>
           ELSE kernelPanic
    /\ UNCHANGED <<alive, arrays, undos, shm, lock, semsize, budget, dropped, tlog>>
    /\ UNCHANGED shmVars

\* the thread suspended in acquire() is woken once the value can be decremented
SemopWake(t) ==
    /\ ~panicked
    /\ pc[t] = "semop_wait"
    /\ LET e == CurrentOp(call[t])
           a == call[t].arr
       IN  /\ CanAcquire(semval, a, e.num)
           /\ semval' = SemAcquireNow(semval, a, e.num)
           /\ SemopAfterOp(t, e)
    /\ UNCHANGED <<alive, arrays, undos, shm, lock, semsize, panicked, budget>>
    /\ UNCHANGED <<waited, dropped, tlog>>
    /\ UNCHANGED shmVars

\* self.process() of the add_undo statement
UndoLock(t) ==
    /\ ~panicked
    /\ pc[t] = "undo_lock"
    /\ lock[ProcOf(t)] = NoThread
    /\ lock' = [lock EXCEPT ![ProcOf(t)] = t]
    /\ pc' = [pc EXCEPT ![t] = "undo"]
    /\ UNCHANGED <<alive, arrays, undos, shm, semsize, semval, call, ret, panicked, budget>>
    /\ UNCHANGED histVars
    /\ UNCHANGED shmVars

\* .semaphores.add_undo(id, num, op), then the next element
SemopUndo(t) ==
    /\ ~panicked
    /\ pc[t] = "undo"
    /\ LET e == CurrentOp(call[t])
       IN  /\ undos' = [undos EXCEPT ![ProcOf(t)] = add_undo(@, call[t].id, e.num, e.op)]
           /\ SemopAdvance(t, applied[t], Append(recorded[t], e))
    /\ lock' = [lock EXCEPT ![ProcOf(t)] = NoThread]
    /\ UNCHANGED <<alive, arrays, shm, semsize, semval, panicked, budget>>
    /\ UNCHANGED <<undoSum, waited, dropped, tlog>>
    /\ UNCHANGED shmVars

(***************************************************************************)
(* sys_semctl                                                              *)
(***************************************************************************)
sys_semctl(t, id, num, cmd, arg) ==
    /\ CanCall(t)
    /\ lock[ProcOf(t)] = NoThread
    /\ budget' = budget - 1
    /\ LET g == SemProc_get(arrays[ProcOf(t)], id)
       IN  IF ~g.some
           THEN /\ ret' = [ret EXCEPT ![t] = EINVAL]
                /\ UNCHANGED <<semval, panicked>>
           ELSE IF ~InBounds(semsize, g.v, num)
           THEN /\ panicked' = TRUE
                /\ UNCHANGED <<semval, ret>>
           ELSE IF cmd = SETVAL
           THEN /\ semval' = SemSet(semval, g.v, num, arg)
                /\ ret' = [ret EXCEPT ![t] = Ok(0)]
                /\ UNCHANGED panicked
           ELSE /\ panicked' = TRUE
                /\ UNCHANGED <<semval, ret>>
    /\ UNCHANGED <<alive, arrays, undos, shm, lock, semsize, pc, call>>
    /\ UNCHANGED histVars
    /\ UNCHANGED shmVars

(***************************************************************************)
(* sys_shmget, sys_shmat, sys_shmdt                                        *)
(***************************************************************************)
ShmSizeChoices == {PAGE_SIZE, 2 * PAGE_SIZE}
HintChoices == {0, 2 * PAGE_SIZE}
DetachChoices == {0, PAGE_SIZE, 2 * PAGE_SIZE, 3 * PAGE_SIZE}

sys_shmget(t, key, sz) ==
    /\ CanCall(t)
    /\ lock[ProcOf(t)] = NoThread
    /\ budget' = budget - 1
    /\ LET g == new_sharedGuard(shmgen, shmsize, shmrefs, key, sz)
           r == ShmProc_add(shm[ProcOf(t)], g.guard)
       IN  /\ shmgen' = g.gen
           /\ shmsize' = g.size
           /\ shmrefs' = AddRefs(shmrefs, key, 1)
           /\ shm' = [shm EXCEPT ![ProcOf(t)] = r.shmIdentifiers]
           /\ ret' = [ret EXCEPT ![t] = Ok(r.id)]
    /\ UNCHANGED <<alive, arrays, undos, lock, semsize, semval, pc, call, panicked>>
    /\ UNCHANGED histVars
    /\ UNCHANGED <<vm, shmcall>>

\* self.process().shmIdentifiers.get(id).ok_or(SysError::EINVAL)?: the guard of
\* the process is a temporary of this statement; the entry is a clone
ShmatGet(t, id, addr) ==
    /\ CanCall(t)
    /\ lock[ProcOf(t)] = NoThread
    /\ budget' = budget - 1
    /\ LET g == ShmProc_get(shm[ProcOf(t)], id)
       IN  IF ~g.some
           THEN /\ ret' = [ret EXCEPT ![t] = EINVAL]
                /\ UNCHANGED <<pc, shmcall, shmrefs>>
           ELSE /\ pc' = [pc EXCEPT ![t] = "shmat_lock"]
                /\ shmcall' = [shmcall EXCEPT ![t] =
                                  [id |-> id, addr |-> addr, ident |-> g.v]]
                /\ shmrefs' = AddRefs(shmrefs, GuardKey(g.v.sharedGuard), 1)
                /\ UNCHANGED ret
    /\ UNCHANGED <<alive, arrays, undos, shm, lock, semsize, semval, call, panicked>>
    /\ UNCHANGED histVars
    /\ UNCHANGED <<vm, shmgen, shmsize>>

\* let mut proc = self.process(); ... return Ok(addr): the region is mapped
\* with a clone of the guard and the looked-up entry is written back
ShmatAttach(t) ==
    /\ ~panicked
    /\ pc[t] = "shmat_lock"
    /\ lock[ProcOf(t)] = NoThread
    /\ LET p == ProcOf(t)
           c == shmcall[t]
           guard == c.ident.sharedGuard
           hint == IF c.addr = 0 THEN PAGE_SIZE ELSE c.addr
           size == shmsize[GuardKey(guard)]
           addr == find_free_area(vm[p], hint, size)
           mapped == AddRefs(shmrefs, GuardKey(guard), 1)
       IN  /\ vm' = [vm EXCEPT ![p] = vm_push(@, addr, addr + size, guard)]
           /\ shm' = [shm EXCEPT ![p] = ShmProc_set(@, c.id, ShmIdentifier(addr, guard))]
           \* the entry that set replaces is dropped
           /\ shmrefs' = IF c.id \in DOMAIN shm[p]
                         THEN AddRefs(mapped, GuardKey(shm[p][c.id].sharedGuard), 0 - 1)
                         ELSE mapped
           /\ ret' = [ret EXCEPT ![t] = Ok(addr)]
    /\ pc' = [pc EXCEPT ![t] = "idle"]
    /\ shmcall' = [shmcall EXCEPT ![t] = NoShmCall]
    /\ UNCHANGED <<alive, arrays, undos, lock, semsize, semval, call, panicked, budget>>
    /\ UNCHANGED histVars
    /\ UNCHANGED <<shmgen, shmsize>>

sys_shmdt(t, addr) ==
    /\ CanCall(t)
    /\ lock[ProcOf(t)] = NoThread
    /\ budget' = budget - 1
    /\ LET optId == ShmProc_getId(shm[ProcOf(t)], addr)
       IN  IF optId.some
           THEN /\ shm' = [shm EXCEPT ![ProcOf(t)] = ShmProc_pop(@, optId.v)]
                /\ shmrefs' = AddRefs(shmrefs,
                                  GuardKey(shm[ProcOf(t)][optId.v].sharedGuard), 0 - 1)
           ELSE UNCHANGED <<shm, shmrefs>>
    /\ ret' = [ret EXCEPT ![t] = Ok(0)]
    /\ UNCHANGED <<alive, arrays, undos, lock, semsize, semval, pc, call, panicked>>
    /\ UNCHANGED histVars
    /\ UNCHANGED <<vm, shmcall, shmgen, shmsize>>

(***************************************************************************)
(* Fork and termination of a process                                       *)
(***************************************************************************)
\* the references to the guard of key held by a table and an address space
HeldBy(ids, regs, key) ==
    Cardinality({i \in DOMAIN ids : GuardKey(ids[i].sharedGuard) = key})
      + Cardinality({r \in regs : GuardKey(r.guard) = key})

\* a thread of p forks: the child c gets SemProc::clone() and ShmProc::clone()
\* of p's tables and a copy of p's address space
Fork(p, c) ==
    /\ ~panicked
    /\ alive[p] /\ ~alive[c]
    /\ \E t \in ThreadsOf(p) : pc[t] = "idle"
    /\ lock[p] = NoThread
    /\ budget > 0
    /\ budget' = budget - 1
    /\ alive' = [alive EXCEPT ![c] = TRUE]
    /\ LET child == SemProc_clone(arrays[p], undos[p])
       IN  /\ arrays' = [arrays EXCEPT ![c] = child.arrays]
           /\ undos' = [undos EXCEPT ![c] = child.undos]
    /\ undoSum' = [undoSum EXCEPT ![c] = EmptyMap]
    /\ dropped' = [dropped EXCEPT ![c] = NoDrop]
    /\ shm' = [shm EXCEPT ![c] = ShmProc_clone(shm[p])]
    /\ vm' = [vm EXCEPT ![c] = vm[p]]
    /\ shmrefs' = [k \in Keys |-> shmrefs[k] + HeldBy(shm'[c], vm'[c], k)]
    /\ UNCHANGED <<lock, semsize, semval, pc, call, ret, panicked>>
    /\ UNCHANGED <<applied, recorded, waited, tlog, shmcall, shmgen, shmsize>>

\* the process ends (all its threads are out of their syscalls): its SemProc,
\* its ShmProc and its address space are dropped
Terminate(p) ==
    /\ ~panicked
    /\ alive[p]
    /\ \A t \in ThreadsOf(p) : pc[t] = "idle"
    /\ lock[p] = NoThread
    /\ LET d == SemProc_drop(arrays[p], undos[p], DOMAIN undos[p], semsize, semval, {})
       IN  /\ semval' = d.semval
           /\ panicked' = ~d.completed
           /\ dropped' = [dropped EXCEPT ![p] =
                  [happened |-> TRUE, completed |-> d.completed, undos |-> undos[p],
                   arrays |-> arrays[p], sum |-> undoSum[p], before |-> semval,
                   after |-> d.semval, released |-> d.released]]
    /\ alive' = [alive EXCEPT ![p] = FALSE]
    /\ arrays' = [arrays EXCEPT ![p] = EmptyMap]
    /\ undos' = [undos EXCEPT ![p] = EmptyMap]
    /\ undoSum' = [undoSum EXCEPT ![p] = EmptyMap]
    /\ shm' = [shm EXCEPT ![p] = EmptyMap]
    /\ vm' = [vm EXCEPT ![p] = {}]
    /\ shmrefs' = [k \in Keys |-> shmrefs[k] - HeldBy(shm[p], vm[p], k)]
    /\ UNCHANGED <<lock, semsize, pc, call, ret, budget>>
    /\ UNCHANGED <<applied, recorded, waited, tlog, shmcall, shmgen, shmsize>>

(***************************************************************************)
(* The semaphore protocol                                                  *)
(***************************************************************************)
Next ==
    \/ \E t \in Threads, key \in Keys, nsems \in NsemsChoices : sys_semget(t, key, nsems)
    \/ \E t \in Threads, id \in IdChoices, ops \in OpsChoices, readable \in BOOLEAN :
           SemopCall(t, id, ops, readable)
    \/ \E t \in Threads : SemopGet(t)
    \/ \E t \in Threads : SemopOp(t)
    \/ \E t \in Threads : SemopWake(t)
    \/ \E t \in Threads : UndoLock(t)
    \/ \E t \in Threads : SemopUndo(t)
    \/ \E t \in Threads, id \in IdChoices, num \in NumChoices, cmd \in CmdChoices,
          arg \in ArgChoices : sys_semctl(t, id, num, cmd, arg)
    \/ \E p \in Procs, c \in Procs : Fork(p, c)
    \/ \E p \in Procs : Terminate(p)

Spec == Init /\ [][Next]_vars

(***************************************************************************)
(* Properties of the semaphore protocol (checked under Spec)               *)
(***************************************************************************)
Idle(p) == \A t \in ThreadsOf(p) : pc[t] = "idle"
InSemop(t) == pc[t] \in {"semop_get", "semop_op", "semop_wait", "undo_lock", "undo"}
UndoOf(elems) == SelectSeq(elems, LAMBDA e : Contains(e.flags, SEM_UNDO))

RECURSIVE SumOver(_, _)
SumOver(S, f) ==
    IF S = {} THEN 0
    ELSE LET k == CHOOSE x \in S : TRUE IN f[k] + SumOver(S \ {k}, f)

\* what the undo entries recorded for semaphore num of the array of key add up to
UndoDelta(arrs, und, key, num) ==
    SumOver({k \in DOMAIN und : k[2] = num /\ k[1] \in DOMAIN arrs /\ arrs[k[1]] = key}, und)

\* C1: while no semop of a process is in progress, its undo value for every
\* (id, num) is minus the sum of the SEM_UNDO-flagged op values the process
\* applied to (id, num) since its table was created (absent = 0); unflagged
\* operations never reach the undo table.
C1_UndoIsNegatedSum ==
    \A p \in Procs : (alive[p] /\ Idle(p)) =>
        \A k \in (DOMAIN undos[p]) \cup (DOMAIN undoSum[p]) :
            Lookup(undos[p], k, 0) = 0 - Lookup(undoSum[p], k, 0)

\* two sibling threads have each completed a flagged release on the same semaphore
C1_Witness ==
    /\ alive[1] /\ Idle(1)
    /\ ret[1] = Ok(0) /\ ret[2] = Ok(0)
    /\ \E k \in DOMAIN undos[1] : undos[1][k] = 0 - 2

\* C2: termination runs to completion and changes every semaphore by exactly
\* the undo values recorded for it, so that the SEM_UNDO operations of the
\* terminated process leave no net effect.
C2_TerminationAppliesEveryUndo ==
    \A p \in Procs : dropped[p].happened =>
        /\ dropped[p].completed
        /\ \A key \in Keys : \A k \in DOMAIN dropped[p].undos :
               SemValue(dropped[p].after, key, k[2]) =
                   SemValue(dropped[p].before, key, k[2])
                     + UndoDelta(dropped[p].arrays, dropped[p].undos, key, k[2])

\* C3: at termination a release is applied to the semaphore of an undo entry
\* (id, num) -> v if and only if v = 1, whatever the other entries hold.
C3_ReleaseIffOne ==
    \A p \in Procs : dropped[p].happened =>
        \A k \in DOMAIN dropped[p].undos :
            (k \in dropped[p].released) <=> (dropped[p].undos[k] = 1)

\* C4: no thread suspended in acquire holds its process's table lock; the lock
\* is only ever held by a thread of the process that is inside the get or the
\* add_undo statement, which never blocks, so sibling threads can always go on.
C4_NoLockAcrossAcquire ==
    /\ \A t \in Threads : pc[t] = "semop_wait" => lock[ProcOf(t)] # t
    /\ \A p \in Procs : lock[p] # NoThread =>
           /\ ProcOf(lock[p]) = p
           /\ pc[lock[p]] \in {"semop_get", "undo"}

\* thread 1 is suspended in acquire while its sibling holds the table lock
C4_Witness == pc[1] = "semop_wait" /\ lock[1] = 2

\* C6: fork gives the child the parent's id -> array mapping (the same arrays)
\* and an empty undo table and leaves the parent's table alone; the termination
\* of a process that applied no SEM_UNDO operation changes no semaphore value.
C6_ForkSharesArraysClearsUndos ==
    [][ /\ \A p \in Procs, c \in Procs :
             (p # c /\ alive[p] /\ ~alive[c] /\ alive'[c]) =>
                 /\ arrays'[c] = arrays[p]
                 /\ undos'[c] = EmptyMap
                 /\ arrays'[p] = arrays[p]
                 /\ undos'[p] = undos[p]
                 /\ semval' = semval /\ semsize' = semsize
        /\ \A c \in Procs :
             (alive[c] /\ ~alive'[c] /\ undoSum[c] = EmptyMap) =>
                 /\ semval' = semval
                 /\ ~panicked'
                 /\ \A p \in Procs \ {c} : undos'[p] = undos[p] ]_vars

\* a child forked from a parent with a pending undo has terminated; the
\* parent still holds its undo entry
C6_Witness ==
    /\ dropped[2].happened /\ dropped[2].arrays # EmptyMap
    /\ dropped[2].arrays = arrays[1]
    /\ dropped[2].undos = EmptyMap
    /\ alive[1] /\ undos[1] # EmptyMap

\* C9: the elements of one semop are applied in the order given, one at a
\* time: at element i (in particular when suspended in its acquire) exactly
\* the elements before i have been applied and have their undo recorded, and
\* no later element has.
C9_InOrderNoAtomicity ==
    \A t \in Threads :
        /\ pc[t] \in {"semop_op", "semop_wait"} =>
              /\ applied[t] = SubSeq(call[t].ops, 1, call[t].i - 1)
              /\ recorded[t] = UndoOf(SubSeq(call[t].ops, 1, call[t].i - 1))
        /\ pc[t] \in {"undo_lock", "undo"} =>
              /\ applied[t] = SubSeq(call[t].ops, 1, call[t].i)
              /\ recorded[t] = UndoOf(SubSeq(call[t].ops, 1, call[t].i - 1))

\* a call is suspended at its second element with the first applied and recorded
C9_Witness ==
    \E t \in Threads :
        /\ pc[t] = "semop_wait" /\ call[t].i = 2
        /\ Len(applied[t]) = 1 /\ Len(recorded[t]) = 1
        /\ (<<call[t].id, applied[t][1].num>>) \in DOMAIN undos[ProcOf(t)]

\* the smallest non-negative integer that is not in S
MinFree(S) == CHOOSE i \in 0..Cardinality(S) : i \notin S /\ \A j \in 0..(i - 1) : j \in S

\* C10: semget with nsems < 0 or nsems > 256 returns EINVAL, creates no array
\* and leaves the table alone; with 0 <= nsems <= 256 it registers the array of
\* key under the smallest free id and returns that id.
C10_SemgetValidatesNsems ==
    [][ \A t \in Threads, key \in Keys, nsems \in NsemsChoices :
          sys_semget(t, key, nsems) =>
              IF nsems < 0 \/ nsems > 256
              THEN /\ ret'[t] = EINVAL
                   /\ arrays' = arrays /\ semsize' = semsize /\ semval' = semval
              ELSE /\ ret'[t] = Ok(MinFree(DOMAIN arrays[ProcOf(t)]))
                   /\ arrays'[ProcOf(t)] =
                          Insert(arrays[ProcOf(t)], ret'[t].val, key)
                   /\ semsize'[key] >= 0
                   /\ \A p \in Procs \ {ProcOf(t)} : arrays'[p] = arrays[p] ]_vars

\* arrays of 0 and of 256 semaphores were both registered, the second under id 1
C10_Witness ==
    /\ DOMAIN arrays[1] = {0, 1}
    /\ {semsize[arrays[1][0]], semsize[arrays[1][1]]} = {0, SEMMSL}
    /\ \E t \in ThreadsOf(1) : ret[t] = Ok(1)

\* the element is one sys_semop does not support
Unsupported(e) == Contains(e.flags, IPC_NOWAIT) \/ e.op \notin {1, 0 - 1}

\* C18: an unsupported semop element (IPC_NOWAIT set, or op other than +1 and
\* -1) changes no semaphore value and records no undo, and what the elements
\* before it in the same call changed and recorded stays; an unsupported
\* semctl command changes no semaphore value and no undo either.
C18_UnsupportedChangesNothing ==
    [][ \A t \in Threads :
          /\ (SemopOp(t) /\ Unsupported(call[t].ops[call[t].i])) =>
                 /\ semval' = semval /\ undos' = undos /\ arrays' = arrays
                 /\ applied'[t] = SubSeq(call[t].ops, 1, call[t].i - 1)
                 /\ recorded'[t] = UndoOf(SubSeq(call[t].ops, 1, call[t].i - 1))
                 /\ \A j \in 1..Len(recorded'[t]) :
                        (<<call[t].id, recorded'[t][j].num>>) \in DOMAIN undos'[ProcOf(t)]
          /\ \A id \in IdChoices, num \in NumChoices, cmd \in CmdChoices \ {SETVAL},
                  arg \in ArgChoices :
                 sys_semctl(t, id, num, cmd, arg) =>
                     semval' = semval /\ undos' = undos /\ arrays' = arrays ]_vars

\* a call stopped at its unsupported second element; the release of its first
\* element and the undo recorded for it are in place
C18_Witness ==
    /\ panicked
    /\ \E t \in Threads :
           /\ pc[t] = "semop_op" /\ call[t].i = 2
           /\ Unsupported(call[t].ops[2])
           /\ Len(applied[t]) = 1 /\ Len(recorded[t]) = 1
           /\ SemValue(semval, call[t].arr, applied[t][1].num) = 1
           /\ Lookup(undos[ProcOf(t)], <<call[t].id, applied[t][1].num>>, 0) = 0 - 1

\* C19: the ids of a semaphore table are 0, ..., n-1: an id enters only as the
\* result n of a successful semget and is never removed or bound to another
\* array; every undo key (id, num) names an id of the table and a semaphore
\* within the bounds of its array, so the replay at termination resolves both.
C19_IdsContiguousUndoKeysResolve ==
    /\ [](\A p \in Procs :
             /\ DOMAIN arrays[p] = 0..(Cardinality(DOMAIN arrays[p]) - 1)
             /\ \A k \in DOMAIN undos[p] :
                    /\ k[1] \in DOMAIN arrays[p]
                    /\ InBounds(semsize, arrays[p][k[1]], k[2]))
    /\ [][ \A p \in Procs : (alive[p] /\ alive'[p]) =>
              /\ \A i \in DOMAIN arrays[p] :
                     i \in DOMAIN arrays'[p] /\ arrays'[p][i] = arrays[p][i]
              /\ arrays'[p] # arrays[p] =>
                     /\ DOMAIN arrays'[p] = (DOMAIN arrays[p]) \cup {Cardinality(DOMAIN arrays[p])}
                     /\ \E t \in ThreadsOf(p) : ret'[t] = Ok(Cardinality(DOMAIN arrays[p])) ]_vars

\* a process holds two arrays and an undo entry for the second
C19_Witness ==
    /\ DOMAIN arrays[1] = {0, 1}
    /\ \E num \in NumChoices : (<<1, num>>) \in DOMAIN undos[1]

(***************************************************************************)
(* The blocking scenario under fair scheduling: thread 1 acquires with     *)
(* SEM_UNDO, its sibling and the forked child release without flags.       *)
(***************************************************************************)
InitLive == InitWith(MaxLiveCalls)

SemopStep(t) ==
    SemopGet(t) \/ SemopOp(t) \/ SemopWake(t) \/ UndoLock(t) \/ SemopUndo(t)

NextLive ==
    \/ \E t \in Threads, key \in Keys : sys_semget(t, key, SEMMSL)
    \/ \E id \in IdChoices, ops \in AcquireUndo : SemopCall(1, id, ops, TRUE)
    \/ \E t \in {2, 3}, id \in IdChoices, ops \in ReleasePlain : SemopCall(t, id, ops, TRUE)
    \/ \E t \in Threads : SemopStep(t)
    \/ Fork(1, 2)

\* the scheduler runs every thread that stays runnable
SpecLive ==
    InitLive /\ [][NextLive]_vars /\ \A t \in Threads : WF_vars(SemopStep(t))

\* thread t is at an acquire that has not been applied yet
Acquiring(t) ==
    /\ pc[t] \in {"semop_op", "semop_wait"}
    /\ CurrentOp(call[t]).op = 0 - 1
AcquireKey(t) == <<call[t].id, CurrentOp(call[t]).num>>
AcquireValue(t) == SemValue(semval, call[t].arr, CurrentOp(call[t]).num)
AcquireKeyDone == <<call[1].id, CurrentOp(call[1]).num>>

\* C5: semop {num, -1, SEM_UNDO} on a semaphore of value 0 blocks; once
\* another thread has released the semaphore it eventually returns; the undo
\* entry is not changed for the operation while it is blocked and is one
\* higher (1 for a fresh table) once the call has returned.
C5_BlocksThenReturnsWithUndo ==
    /\ [][ (Acquiring(1) /\ AcquireValue(1) = 0) =>
               /\ pc'[1] \in {"semop_op", "semop_wait"}
               /\ (pc'[1] # pc[1] => pc'[1] = "semop_wait")
               /\ call'[1] = call[1]
               /\ undos'[1] = undos[1] ]_vars
    /\ [](Acquiring(1) =>
               Lookup(undos[1], AcquireKey(1), 0) = 0 - Lookup(undoSum[1], AcquireKey(1), 0))
    /\ ((pc[1] = "semop_wait" /\ AcquireValue(1) > 0) ~> (pc[1] = "idle" /\ ret[1] = Ok(0)))
    /\ [][ (pc[1] = "undo" /\ pc'[1] = "idle") =>
               /\ ret'[1] = Ok(0)
               /\ undos'[1][AcquireKeyDone] = Lookup(undos[1], AcquireKeyDone, 0) + 1
               /\ (undoSum[1][AcquireKeyDone] = 0 - 1 => undos'[1][AcquireKeyDone] = 1) ]_vars

\* thread 1 was suspended in its acquire, was released by another thread and
\* returned with the undo entry (0, 0) -> 1
C5_Witness ==
    /\ pc[1] = "idle" /\ waited[1] /\ ret[1] = Ok(0)
    /\ <<0, 0>> \in DOMAIN undos[1] /\ undos[1][<<0, 0>>] = 1
    /\ (ret[2] = Ok(0) \/ ret[3] = Ok(0))

(***************************************************************************)
(* The tables on their own: add, get, set, pop applied to process 1        *)
(***************************************************************************)
InitTable == InitWith(MaxTableOps)

tableVars == <<alive, undos, lock, semsize, semval, pc, call, ret, panicked,
               undoSum, applied, recorded, waited, dropped,
               vm, shmcall, shmgen, shmsize, shmrefs>>

Logged(p, op) == [tlog[p] EXCEPT !.prev = tlog[p].last, !.last = op]

T_SemAdd(p, array) ==
    /\ budget > 0 /\ budget' = budget - 1
    /\ LET r == SemProc_add(arrays[p], array)
       IN  /\ arrays' = [arrays EXCEPT ![p] = r.arrays]
           /\ tlog' = [tlog EXCEPT ![p] =
                  [Logged(p, [kind |-> "sem_add", id |-> r.id])
                      EXCEPT !.sem = Append(@, [id |-> r.id, h |-> array])]]
    /\ UNCHANGED shm
    /\ UNCHANGED tableVars

T_ShmAdd(p, sharedGuard) ==
    /\ budget > 0 /\ budget' = budget - 1
    /\ LET r == ShmProc_add(shm[p], sharedGuard)
       IN  /\ shm' = [shm EXCEPT ![p] = r.shmIdentifiers]
           /\ tlog' = [tlog EXCEPT ![p] =
                  [Logged(p, [kind |-> "shm_add", id |-> r.id])
                      EXCEPT !.shm = IF tlog[p].pure
                                     THEN Append(@, [id |-> r.id, h |-> sharedGuard])
                                     ELSE @]]
    /\ UNCHANGED arrays
    /\ UNCHANGED tableVars

T_ShmSet(p, id, addr, sharedGuard) ==
    /\ budget > 0 /\ budget' = budget - 1
    /\ shm' = [shm EXCEPT ![p] = ShmProc_set(@, id, ShmIdentifier(addr, sharedGuard))]
    /\ tlog' = [tlog EXCEPT ![p] =
           [Logged(p, [kind |-> "shm_set", id |-> id])
               EXCEPT !.pure = FALSE, !.shm = <<>>]]
    /\ UNCHANGED arrays
    /\ UNCHANGED tableVars

T_ShmPop(p, id) ==
    /\ budget > 0 /\ budget' = budget - 1
    /\ shm' = [shm EXCEPT ![p] = ShmProc_pop(@, id)]
    /\ tlog' = [tlog EXCEPT ![p] =
           [Logged(p, [kind |-> "shm_pop", id |-> id])
               EXCEPT !.pure = FALSE, !.shm = <<>>]]
    /\ UNCHANGED arrays
    /\ UNCHANGED tableVars

ShmIdChoices == {0, 1, 2}

NextTable ==
    \/ \E array \in Keys : T_SemAdd(1, array)
    \/ \E g \in Guards : T_ShmAdd(1, g)
    \/ \E id \in ShmIdChoices, addr \in AddrChoices, g \in Guards : T_ShmSet(1, id, addr, g)
    \/ \E id \in ShmIdChoices : T_ShmPop(1, id)

SpecTable == InitTable /\ [][NextTable]_vars

\* C7: from an empty table, n successive adds return 0, 1, ..., n-1 in that
\* order and get(i) yields the handle of the i-th add (for ShmProc: an entry
\* with addr = 0 and the inserted guard).
C7_AddsReturnConsecutiveIds ==
    \A p \in Procs :
        /\ \A i \in 1..Len(tlog[p].sem) :
               /\ tlog[p].sem[i].id = i - 1
               /\ SemProc_get(arrays[p], i - 1) = [some |-> TRUE, v |-> tlog[p].sem[i].h]
        /\ tlog[p].pure =>
               \A i \in 1..Len(tlog[p].shm) :
                   /\ tlog[p].shm[i].id = i - 1
                   /\ ShmProc_get(shm[p], i - 1) =
                          [some |-> TRUE, v |-> ShmIdentifier(0, tlog[p].shm[i].h)]

\* two adds of different handles were applied to each table and nothing else
C7_Witness ==
    /\ tlog[1].pure
    /\ Len(tlog[1].sem) = 2 /\ tlog[1].sem[1].h # tlog[1].sem[2].h
    /\ Len(tlog[1].shm) = 2 /\ tlog[1].shm[1].h # tlog[1].shm[2].h

\* C8: after any adds, sets and pops, ShmProc::add returns the smallest id that
\* is not a key of the table (so k after pop(k) when no smaller id is free);
\* pop(k) and that add leave every other entry as it was.
C8_ShmAddReusesSmallestFreeId ==
    [][ \A p \in Procs : (tlog'[p] # tlog[p]) =>
          LET op == tlog'[p].last
              was == tlog[p].last
          IN  /\ op.kind = "shm_add" =>
                    /\ op.id = MinFree(DOMAIN shm[p])
                    /\ DOMAIN shm'[p] = (DOMAIN shm[p]) \cup {op.id}
                    /\ \A k \in DOMAIN shm[p] : shm'[p][k] = shm[p][k]
                    /\ (was.kind = "shm_pop" /\ \A j \in 0..(was.id - 1) : j \in DOMAIN shm[p])
                           => op.id = was.id
              /\ op.kind = "shm_pop" =>
                    /\ DOMAIN shm'[p] = (DOMAIN shm[p]) \ {op.id}
                    /\ \A k \in DOMAIN shm'[p] : shm'[p][k] = shm[p][k] ]_vars

\* an add has returned the id that the pop before it removed, next to an
\* attached entry that kept its address
C8_Witness ==
    /\ tlog[1].last.kind = "shm_add" /\ tlog[1].prev.kind = "shm_pop"
    /\ tlog[1].last.id = tlog[1].prev.id
    /\ \E k \in DOMAIN shm[1] : k > tlog[1].last.id /\ shm[1][k].addr # 0

(***************************************************************************)
(* The shared-memory protocol: shmget, shmat and shmdt by the threads of   *)
(* two processes, fork and termination.                                    *)
(***************************************************************************)
InitShm == InitWith(MaxShmCalls)

NextShm ==
    \/ \E t \in Threads, key \in Keys, sz \in ShmSizeChoices : sys_shmget(t, key, sz)
    \/ \E t \in Threads, id \in IdChoices, addr \in HintChoices : ShmatGet(t, id, addr)
    \/ \E t \in Threads : ShmatAttach(t)
    \/ \E t \in Threads, addr \in DetachChoices : sys_shmdt(t, addr)
    \/ \E p \in Procs, c \in Procs : Fork(p, c)
    \/ \E p \in Procs : Terminate(p)

SpecShm == InitShm /\ [][NextShm]_vars

(***************************************************************************)
(* Properties of the shared-memory protocol (checked under SpecShm)        *)
(***************************************************************************)
\* the entries of p other than id are the same before and after the step
OthersKept(p, id) ==
    /\ (DOMAIN shm'[p]) \ {id} = (DOMAIN shm[p]) \ {id}
    /\ \A j \in (DOMAIN shm[p]) \ {id} : shm'[p][j] = shm[p][j]

\* C12: when shmat(id) returns the address a, the entry id records a with the
\* guard shmat looked up and no other entry changes; no two entries of a table
\* record the same attached address, so that shmdt(a), called while entry id
\* still records a, returns 0 and removes exactly entry id.
C12_ShmatThenShmdtRemovesEntry ==
    /\ [](\A p \in Procs : \A i \in DOMAIN shm[p], j \in DOMAIN shm[p] :
             (i # j /\ shm[p][i].addr # 0) => shm[p][i].addr # shm[p][j].addr)
    /\ [][ \A t \in Threads :
              /\ ShmatAttach(t) =>
                     /\ ret'[t].tag = "Ok" /\ ret'[t].val # 0
                     /\ shmcall[t].id \in DOMAIN shm'[ProcOf(t)]
                     /\ shm'[ProcOf(t)][shmcall[t].id] =
                            ShmIdentifier(ret'[t].val, shmcall[t].ident.sharedGuard)
                     /\ OthersKept(ProcOf(t), shmcall[t].id)
              /\ \A a \in DetachChoices \ {0} : \A id \in DOMAIN shm[ProcOf(t)] :
                     (sys_shmdt(t, a) /\ shm[ProcOf(t)][id].addr = a) =>
                         /\ ret'[t] = Ok(0)
                         /\ id \notin DOMAIN shm'[ProcOf(t)]
                         /\ OthersKept(ProcOf(t), id) ]_vars

\* of two segments registered, the one with id 0 was attached and then detached
\* by the address its shmat returned; the entry with id 1 is still there
C12_Witness ==
    /\ DOMAIN shm[1] = {1} /\ shm[1][1].addr = 0
    /\ Cardinality(vm[1]) = 1
    /\ \E t \in ThreadsOf(1) : ret[t] = Ok(0)

\* C13: shmdt(addr), for every addr (0 included) at which the process has no
\* attached segment, returns 0 and leaves the whole shared-memory table alone,
\* the entries that shmget created and that are not attached yet included.
C13_ShmdtUnattachedIsNoop ==
    [][ \A t \in Threads, addr \in DetachChoices :
          (sys_shmdt(t, addr) /\ ~MappedAt(vm[ProcOf(t)], addr)) =>
              /\ ret'[t] = Ok(0)
              /\ shm' = shm ]_vars

\* thread t is about to write back the entry of an id that is still in the
\* table with the guard t looked up and that is attached already
Reattach(t) ==
    /\ ShmatAttach(t)
    /\ shmcall[t].id \in DOMAIN shm[ProcOf(t)]
    /\ shm[ProcOf(t)][shmcall[t].id].sharedGuard = shmcall[t].ident.sharedGuard
    /\ shm[ProcOf(t)][shmcall[t].id].addr # 0
    /\ MappedAt(vm[ProcOf(t)], shm[ProcOf(t)][shmcall[t].id].addr)

\* C14: an id has at most one live mapping in the address space of its process:
\* a second shmat on an id that is attached and was not detached never leaves
\* the region of the first shmat and a second region both mapped.
C14_OneMappingPerShmId ==
    [][ \A t \in Threads :
          Reattach(t) =>
              ~ /\ MappedAt(vm'[ProcOf(t)], shm[ProcOf(t)][shmcall[t].id].addr)
                /\ MappedAt(vm'[ProcOf(t)], ret'[t].val)
                /\ ret'[t].val # shm[ProcOf(t)][shmcall[t].id].addr ]_vars

\* C15: when shmdt(a) removes the entry that records the address a, the region
\* that shmat mapped at a is unmapped and the process keeps no reference to the
\* guard of the segment through it.
C15_ShmdtUnmapsRegion ==
    [][ \A t \in Threads, a \in DetachChoices \ {0} : \A id \in DOMAIN shm[ProcOf(t)] :
          (sys_shmdt(t, a) /\ shm[ProcOf(t)][id].addr = a /\ id \notin DOMAIN shm'[ProcOf(t)]) =>
              /\ ~MappedAt(vm'[ProcOf(t)], a)
              /\ \A r \in vm'[ProcOf(t)] :
                     r.guard = shm[ProcOf(t)][id].sharedGuard =>
                         \E j \in DOMAIN shm'[ProcOf(t)] : shm'[ProcOf(t)][j].addr = r.start ]_vars

\* C16: a second shmat on an attached id keeps the entry and its guard, does
\* not lower the holder count of the guard, and leaves the address of the
\* first shmat and the address it returns both detachable (shmdt finds an
\* entry for each).
C16_SecondShmatKeepsGuard ==
    [][ \A t \in Threads :
          Reattach(t) =>
              /\ shmcall[t].id \in DOMAIN shm'[ProcOf(t)]
              /\ shm'[ProcOf(t)][shmcall[t].id].sharedGuard = shmcall[t].ident.sharedGuard
              /\ shmrefs'[GuardKey(shmcall[t].ident.sharedGuard)]
                     >= shmrefs[GuardKey(shmcall[t].ident.sharedGuard)]
              /\ ShmProc_getId(shm'[ProcOf(t)], ret'[t].val).some
              /\ ShmProc_getId(shm'[ProcOf(t)], shm[ProcOf(t)][shmcall[t].id].addr).some ]_vars

\* the guard is the live guard of its key and has a holder
GuardAlive(guard) ==
    /\ shmgen[GuardKey(guard)] = guard[2]
    /\ shmrefs[GuardKey(guard)] > 0

\* C17: fork gives the child the ids, recorded addresses and guards of the
\* parent (the same guards, each with more holders than before) and leaves
\* the parent's table alone; afterwards shmget, shmat and shmdt of a thread
\* change no table but that of the thread's process, and the guard of every
\* entry of a live process is alive, whatever the other process did.
C17_ForkDuplicatesShmTable ==
    /\ [](\A p \in Procs : \A i \in DOMAIN shm[p] : GuardAlive(shm[p][i].sharedGuard))
    /\ [][ /\ \A p \in Procs, c \in Procs :
                 (p # c /\ alive[p] /\ ~alive[c] /\ alive'[c]) =>
                     /\ shm'[c] = shm[p]
                     /\ shm'[p] = shm[p]
                     /\ \A i \in DOMAIN shm[p] :
                            /\ shmgen' = shmgen
                            /\ shmrefs'[GuardKey(shm[p][i].sharedGuard)]
                                   > shmrefs[GuardKey(shm[p][i].sharedGuard)]
            /\ \A t \in Threads :
                 ( \/ \E key \in Keys, sz \in ShmSizeChoices : sys_shmget(t, key, sz)
                   \/ \E id \in IdChoices, addr \in HintChoices : ShmatGet(t, id, addr)
                   \/ ShmatAttach(t)
                   \/ \E addr \in DetachChoices : sys_shmdt(t, addr) ) =>
                     \A q \in Procs \ {ProcOf(t)} : shm'[q] = shm[q] /\ vm'[q] = vm[q] ]_vars

\* the parent attached a segment, forked and ended; the child still holds the
\* entry with the recorded address, and the guard has holders left
C17_Witness ==
    /\ ~alive[1] /\ alive[2]
    /\ \E i \in DOMAIN shm[2] :
           shm[2][i].addr # 0 /\ shmrefs[GuardKey(shm[2][i].sharedGuard)] = 2

\* C20: under every interleaving shmat(id) writes back only to the entry it
\* looked up: at the write the id is still in the table with the guard that was
\* looked up, and an id enters the table of a live process only by a shmget
\* that returns it.
C20_ShmatWritesOnlyLookedUpEntry ==
    [][ /\ \A t \in Threads :
             ShmatAttach(t) =>
                 /\ shmcall[t].id \in DOMAIN shm[ProcOf(t)]
                 /\ shm[ProcOf(t)][shmcall[t].id].sharedGuard = shmcall[t].ident.sharedGuard
        /\ \A p \in Procs : \A i \in (DOMAIN shm'[p]) \ (DOMAIN shm[p]) :
             alive[p] =>
                 \E t \in ThreadsOf(p), key \in Keys, sz \in ShmSizeChoices :
                     sys_shmget(t, key, sz) /\ ret'[t] = Ok(i) ]_vars

(***************************************************************************)
(* Error returns: the six syscalls of one process with small inputs, the   *)
(* ids present and absent, the operation array readable and unreadable.    *)
(***************************************************************************)
InitErr == InitWith(MaxErrCalls)

ErrOps == {<<>>, <<SemBuf(0, 1, SEM_UNDO)>>}

NextErr ==
    \/ \E t \in ThreadsOf(1), key \in Keys : sys_semget(t, key, SEMMSL)
    \/ \E t \in ThreadsOf(1), id \in IdChoices, ops \in ErrOps, readable \in BOOLEAN :
           SemopCall(t, id, ops, readable)
    \/ \E t \in ThreadsOf(1) : SemopGet(t)
    \/ \E t \in ThreadsOf(1) : SemopOp(t)
    \/ \E t \in ThreadsOf(1) : UndoLock(t)
    \/ \E t \in ThreadsOf(1) : SemopUndo(t)
    \/ \E t \in ThreadsOf(1), id \in IdChoices, arg \in ArgChoices :
           sys_semctl(t, id, 0, SETVAL, arg)
    \/ \E t \in ThreadsOf(1), key \in Keys : sys_shmget(t, key, PAGE_SIZE)
    \/ \E t \in ThreadsOf(1), id \in IdChoices : ShmatGet(t, id, 0)
    \/ \E t \in ThreadsOf(1) : ShmatAttach(t)
    \/ \E t \in ThreadsOf(1), addr \in {0, PAGE_SIZE} : sys_shmdt(t, addr)

SpecErr == InitErr /\ [][NextErr]_vars

\* the kernel state an erroneous call must leave alone
KernelStateUnchanged ==
    /\ semval' = semval /\ semsize' = semsize
    /\ undos' = undos /\ arrays' = arrays
    /\ shm' = shm /\ vm' = vm
    /\ shmrefs' = shmrefs /\ shmgen' = shmgen /\ shmsize' = shmsize

\* C11: semop with an unreadable operation array returns the invalid-memory
\* error, and semop, semctl and shmat with an id that is not in the caller's
\* table return EINVAL; none of these calls changes a semaphore value, an undo
\* table, a table entry, a guard or a mapping, nor keeps the table lock.
C11_ErrorsChangeNoState ==
    [][ \A t \in Threads :
          /\ \A id \in IdChoices, ops \in ErrOps :
                 /\ SemopCall(t, id, ops, FALSE) =>
                        /\ ret'[t] = EFAULT /\ pc'[t] = "idle"
                        /\ lock' = lock /\ KernelStateUnchanged
                 /\ SemopCall(t, id, ops, TRUE) => KernelStateUnchanged
          /\ (SemopGet(t) /\ call[t].id \notin DOMAIN arrays[ProcOf(t)]) =>
                 /\ ret'[t] = EINVAL /\ pc'[t] = "idle"
                 /\ lock'[ProcOf(t)] = NoThread /\ KernelStateUnchanged
          /\ \A id \in IdChoices, arg \in ArgChoices :
                 (sys_semctl(t, id, 0, SETVAL, arg) /\ id \notin DOMAIN arrays[ProcOf(t)]) =>
                     /\ ret'[t] = EINVAL /\ ~panicked'
                     /\ lock' = lock /\ KernelStateUnchanged
          /\ \A id \in IdChoices, addr \in HintChoices :
                 (ShmatGet(t, id, addr) /\ id \notin DOMAIN shm[ProcOf(t)]) =>
                     /\ ret'[t] = EINVAL /\ pc'[t] = "idle"
                     /\ lock' = lock /\ KernelStateUnchanged ]_vars

\* with a semaphore set to 1, an undo recorded and a segment registered, one
\* thread got EINVAL for an absent id and its sibling the invalid-memory error
C11_Witness ==
    /\ ret[1] = EINVAL /\ ret[2] = EFAULT
    /\ \E k \in Keys : semval[k] # EmptyMap
    /\ shm[1] # EmptyMap
    /\ pc[1] = "idle" /\ pc[2] = "idle"

====
